---- MODULE Spec2Model ----
(***************************************************************************)
(* Model of backend/py_template/devdonalds.py: the cookbook registry, the  *)
(* /entry handler (create_entry), the /summary handler (summary) and the   *)
(* recursive resolver get_base_ingredient_counts.                          *)
(*                                                                         *)
(* JSON values are records [k, s, i]: k is the Python type of the value    *)
(* ("none" for an absent key or null, "str", "int", "bool"), s its string  *)
(* and i its number.  A Python dict that is iterated (the resolver's       *)
(* result) is a sequence of [name, quantity] pairs in insertion order.     *)
(***************************************************************************)
EXTENDS Integers, Sequences, FiniteSets, TLC

VARIABLES cookbook, request, response, resolution

vars == <<cookbook, request, response, resolution>>

-----------------------------------------------------------------------------
(* JSON values and Python's view of them *)

JNone == [k |-> "none", s |-> "", i |-> 0]

JStr(x) == [k |-> "str", s |-> x, i |-> 0]

JInt(n) == [k |-> "int", s |-> "", i |-> n]

JBool(b) == [k |-> "bool", s |-> "", i |-> IF b THEN 1 ELSE 0]

\* Python truthiness: None, "", 0 and False are falsy.
Truthy(v) ==
    CASE v.k = "none" -> FALSE
      [] v.k = "str"  -> v.s # ""
      [] OTHER        -> v.i # 0

\* isinstance(v, str)
IsStr(v) == v.k = "str"

\* isinstance(v, int): bool is a subclass of int in Python.
IsInt(v) == v.k \in {"int", "bool"}

-----------------------------------------------------------------------------
(* Payloads *)

\* A requiredItems element that is no JSON object (element.get raises).
NotADict == [k |-> "other", name |-> JNone, quantity |-> JNone]

Item(n, q) == [k |-> "dict", name |-> n, quantity |-> q]

\* requiredItems: absent, a list, or a JSON value that is no list.
NoItems == [k |-> "none", items |-> <<>>]

ItemList(l) == [k |-> "list", items |-> l]

NotAList == [k |-> "other", items |-> <<>>]

\* The body of a POST /entry: a JSON object, a falsy body ({} or null), or
\* a truthy body that is no object.
Entry(t, n, c, r) ==
    [kind |-> "dict", type |-> t, name |-> n, cookTime |-> c, requiredItems |-> r]

FalsyEntry ==
    [kind |-> "falsy", type |-> JNone, name |-> JNone, cookTime |-> JNone,
     requiredItems |-> NoItems]

NonDictEntry ==
    [kind |-> "other", type |-> JNone, name |-> JNone, cookTime |-> JNone,
     requiredItems |-> NoItems]

-----------------------------------------------------------------------------
(* create_entry *)

MsgFormat == "Invalid entry format"
MsgType == "Type must be recipe or ingredient"
MsgName == "Invalid name"
MsgCookTime == "Invalid cookTime"
MsgUnique == "Entry names must be unique"
MsgItems == "Invalid requiredItems"
MsgItemName == "Invalid requiredItem name"
MsgItemDup == "Invalid required items, multiple of the same name"
MsgItemQty == "Invalid requiredItem quantity"
MsgFault == "Internal Server Error"

\* The loop over requiredItems: "" when every element passes, else the
\* message of the first return (MsgFault when element.get raises).
RECURSIVE CheckItems(_, _, _)
CheckItems(items, idx, seen) ==
    IF idx > Len(items) THEN ""
    ELSE LET element == items[idx] IN
         IF element.k # "dict" THEN MsgFault
         ELSE LET requiredName == element.name
                  quantity == element.quantity
              IN  IF ~Truthy(requiredName) \/ ~IsStr(requiredName) THEN MsgItemName
                  ELSE IF requiredName.s \in seen THEN MsgItemDup
                  ELSE IF quantity.k = "none" \/ ~IsInt(quantity) THEN MsgItemQty
                  ELSE CheckItems(items, idx + 1, seen \cup {requiredName.s})

\* The handler's answer and the registry it leaves.
Answer(st, m, cb) == [status |-> st, msg |-> m, cookbook |-> cb]

\* Store keeping a typed copy of the entry: a JSON true cookTime becomes 1
Store_Coerced(cb, name, entry) ==
    [n \in DOMAIN cb \cup {name} |->
        IF n = name
        THEN [entry EXCEPT !.cookTime = IF @.k = "bool" THEN JInt(@.i) ELSE @]
        ELSE cb[n]]

\* cookbook[name] = entry
Store(cb, name, entry) ==
    [n \in DOMAIN cb \cup {name} |-> IF n = name THEN entry ELSE cb[n]]

\* create_entry without the check of line 88
create_entry_NoUnique(cb, entry) ==
    IF entry.kind = "falsy" THEN Answer(400, MsgFormat, cb)
    ELSE IF entry.kind # "dict" THEN Answer(500, MsgFault, cb)
    ELSE
    LET type == entry.type
        name == entry.name
        isRecipe == type = JStr("recipe")
        isIngredient == type = JStr("ingredient")
        requiredItems == IF isRecipe THEN entry.requiredItems ELSE NoItems
        cookTime == IF isIngredient THEN entry.cookTime ELSE JNone
    IN  IF ~(isRecipe \/ isIngredient) THEN Answer(400, MsgType, cb)
        ELSE IF ~Truthy(name) \/ ~IsStr(name) THEN Answer(400, MsgName, cb)
        ELSE IF isIngredient
                /\ (cookTime.k = "none" \/ ~IsInt(cookTime) \/ cookTime.i < 0)
             THEN Answer(400, MsgCookTime, cb)
        ELSE IF isRecipe /\ requiredItems.k # "list" THEN Answer(400, MsgItems, cb)
        ELSE LET verdict == IF isRecipe THEN CheckItems(requiredItems.items, 1, {})
                            ELSE ""
             IN  IF verdict = MsgFault THEN Answer(500, MsgFault, cb)
                 ELSE IF verdict # "" THEN Answer(400, verdict, cb)
                 ELSE Answer(200, "", Store(cb, name.s, entry))

\* create_entry storing the entry before the loop over requiredItems
create_entry_StoreFirst(cb, entry) ==
    IF entry.kind = "falsy" THEN Answer(400, MsgFormat, cb)
    ELSE IF entry.kind # "dict" THEN Answer(500, MsgFault, cb)
    ELSE
    LET type == entry.type
        name == entry.name
        isRecipe == type = JStr("recipe")
        isIngredient == type = JStr("ingredient")
        requiredItems == IF isRecipe THEN entry.requiredItems ELSE NoItems
        cookTime == IF isIngredient THEN entry.cookTime ELSE JNone
    IN  IF ~(isRecipe \/ isIngredient) THEN Answer(400, MsgType, cb)
        ELSE IF ~Truthy(name) \/ ~IsStr(name) THEN Answer(400, MsgName, cb)
        ELSE IF isIngredient
                /\ (cookTime.k = "none" \/ ~IsInt(cookTime) \/ cookTime.i < 0)
             THEN Answer(400, MsgCookTime, cb)
        ELSE IF name.s \in DOMAIN cb THEN Answer(400, MsgUnique, cb)
        ELSE IF isRecipe /\ requiredItems.k # "list" THEN Answer(400, MsgItems, cb)
        ELSE LET verdict == IF isRecipe THEN CheckItems(requiredItems.items, 1, {})
                            ELSE ""
             IN  IF verdict = MsgFault THEN Answer(500, MsgFault, cb)
                 ELSE IF verdict # "" THEN Answer(400, verdict, Store(cb, name.s, entry))
                 ELSE Answer(200, "", Store(cb, name.s, entry))

\* create_entry checking uniqueness before the cookTime
create_entry_UniqueFirst(cb, entry) ==
    IF entry.kind = "falsy" THEN Answer(400, MsgFormat, cb)
    ELSE IF entry.kind # "dict" THEN Answer(500, MsgFault, cb)
    ELSE
    LET type == entry.type
        name == entry.name
        isRecipe == type = JStr("recipe")
        isIngredient == type = JStr("ingredient")
        requiredItems == IF isRecipe THEN entry.requiredItems ELSE NoItems
        cookTime == IF isIngredient THEN entry.cookTime ELSE JNone
    IN  IF ~(isRecipe \/ isIngredient) THEN Answer(400, MsgType, cb)
        ELSE IF ~Truthy(name) \/ ~IsStr(name) THEN Answer(400, MsgName, cb)
        ELSE IF name.s \in DOMAIN cb THEN Answer(400, MsgUnique, cb)
        ELSE IF isIngredient
                /\ (cookTime.k = "none" \/ ~IsInt(cookTime) \/ cookTime.i < 0)
             THEN Answer(400, MsgCookTime, cb)
        ELSE IF isRecipe /\ requiredItems.k # "list" THEN Answer(400, MsgItems, cb)
        ELSE LET verdict == IF isRecipe THEN CheckItems(requiredItems.items, 1, {})
                            ELSE ""
             IN  IF verdict = MsgFault THEN Answer(500, MsgFault, cb)
                 ELSE IF verdict # "" THEN Answer(400, verdict, cb)
                 ELSE Answer(200, "", Store(cb, name.s, entry))

create_entry(cb, entry) ==
    IF entry.kind = "falsy" THEN Answer(400, MsgFormat, cb)
    ELSE IF entry.kind # "dict" THEN Answer(500, MsgFault, cb)
    ELSE
    LET type == entry.type
        name == entry.name
        isRecipe == type = JStr("recipe")
        isIngredient == type = JStr("ingredient")
        requiredItems == IF isRecipe THEN entry.requiredItems ELSE NoItems
        cookTime == IF isIngredient THEN entry.cookTime ELSE JNone
    IN  IF ~(isRecipe \/ isIngredient) THEN Answer(400, MsgType, cb)
        ELSE IF ~Truthy(name) \/ ~IsStr(name) THEN Answer(400, MsgName, cb)
        ELSE IF isIngredient
                /\ (cookTime.k = "none" \/ ~IsInt(cookTime) \/ cookTime.i < 0)
             THEN Answer(400, MsgCookTime, cb)
        ELSE IF name.s \in DOMAIN cb THEN Answer(400, MsgUnique, cb)
        ELSE IF isRecipe /\ requiredItems.k # "list" THEN Answer(400, MsgItems, cb)
        ELSE LET verdict == IF isRecipe THEN CheckItems(requiredItems.items, 1, {})
                            ELSE ""
             IN  IF verdict = MsgFault THEN Answer(500, MsgFault, cb)
                 ELSE IF verdict # "" THEN Answer(400, verdict, cb)
                 ELSE Answer(200, "", Store(cb, name.s, entry))

-----------------------------------------------------------------------------
(* get_base_ingredient_counts *)

\* result.get(key, default) on an insertion-ordered dict
Get(d, key, default) ==
    IF \E j \in 1..Len(d) : d[j].name = key
    THEN d[CHOOSE j \in 1..Len(d) : d[j].name = key].quantity
    ELSE default

\* result[key] = val: an existing key keeps its place, a new key goes last
Put(d, key, val) ==
    IF \E j \in 1..Len(d) : d[j].name = key
    THEN [j \in 1..Len(d) |->
            IF d[j].name = key THEN [name |-> key, quantity |-> val] ELSE d[j]]
    ELSE Append(d, [name |-> key, quantity |-> val])

\* Merge assigning the quantity instead of adding it
RECURSIVE Merge_Overwrite(_, _, _)
Merge_Overwrite(result, subResult, idx) ==
    IF idx > Len(subResult) THEN result
    ELSE Merge_Overwrite(Put(result, subResult[idx].name, subResult[idx].quantity),
                         subResult, idx + 1)

\* for ingredientName, quantity in subResult.items():
\*     result[ingredientName] = result.get(ingredientName, 0) + quantity
RECURSIVE Merge(_, _, _)
Merge(result, subResult, idx) ==
    IF idx > Len(subResult) THEN result
    ELSE LET ingredientName == subResult[idx].name
             quantity == subResult[idx].quantity
         IN  Merge(Put(result, ingredientName, Get(result, ingredientName, 0) + quantity),
                   subResult, idx + 1)

\* What a call ends with: a returned dict, the raised Exception (the name not
\* found) or the interpreter's RecursionError.
Returned(m) == [tag |-> "ok", map |-> m, missing |-> ""]

Raised(n) == [tag |-> "Exception", map |-> <<>>, missing |-> n]

RecursionError == [tag |-> "RecursionError", map |-> <<>>, missing |-> ""]

\* The interpreter's recursion limit (sys.getrecursionlimit(), 1000 frames by
\* default), scaled down; it exceeds the longest acyclic chain of Names.
RecursionLimit == 5

RECURSIVE get_base_ingredient_counts(_, _, _, _)
RECURSIVE ExpandItems(_, _, _, _, _, _)

\* ExpandItems going on with the next item when a recursive call raises
RECURSIVE ExpandItems_Swallow(_, _, _, _, _, _)
ExpandItems_Swallow(cb, items, idx, multiplier, depth, result) ==
    IF idx > Len(items) THEN Returned(result)
    ELSE LET subName == items[idx].name.s
             quantity == items[idx].quantity.i
             subResult == get_base_ingredient_counts(cb, subName,
                                                     multiplier * quantity, depth + 1)
         IN  ExpandItems_Swallow(cb, items, idx + 1, multiplier, depth,
                                 IF subResult.tag # "ok" THEN result
                                 ELSE Merge(result, subResult.map, 1))

\* The loop over entry.get('requiredItems'); an exception of a recursive call
\* leaves the loop and the function at once.
ExpandItems(cb, items, idx, multiplier, depth, result) ==
    IF idx > Len(items) THEN Returned(result)
    ELSE LET subName == items[idx].name.s
             quantity == items[idx].quantity.i
             subResult == get_base_ingredient_counts(cb, subName,
                                                     multiplier * quantity, depth + 1)
         IN  IF subResult.tag # "ok" THEN subResult
             ELSE ExpandItems(cb, items, idx + 1, multiplier, depth,
                              Merge(result, subResult.map, 1))

\* get_base_ingredient_counts cutting the expansion at the limit with an empty
\* mapping
get_base_ingredient_counts_DepthGuard(cb, name, multiplier, depth) ==
    IF depth > RecursionLimit THEN Returned(<<>>)
    ELSE IF name \notin DOMAIN cb THEN Raised(name)
    ELSE LET entry == cb[name] IN
         IF entry.type = JStr("ingredient")
         THEN Returned(<<[name |-> name, quantity |-> multiplier]>>)
         ELSE ExpandItems(cb, entry.requiredItems.items, 1, multiplier, depth, <<>>)

\* get_base_ingredient_counts taking an entry without required items for a
\* base ingredient
get_base_ingredient_counts_EmptyIsBase(cb, name, multiplier, depth) ==
    IF depth > RecursionLimit THEN RecursionError
    ELSE IF name \notin DOMAIN cb THEN Raised(name)
    ELSE LET entry == cb[name] IN
         IF entry.type = JStr("ingredient") \/ entry.requiredItems.items = <<>>
         THEN Returned(<<[name |-> name, quantity |-> multiplier]>>)
         ELSE ExpandItems(cb, entry.requiredItems.items, 1, multiplier, depth, <<>>)

\* depth is the number of frames of get_base_ingredient_counts on the stack.
get_base_ingredient_counts(cb, name, multiplier, depth) ==
    IF depth > RecursionLimit THEN RecursionError
    ELSE IF name \notin DOMAIN cb THEN Raised(name)
    ELSE LET entry == cb[name] IN
         IF entry.type = JStr("ingredient")
         THEN Returned(<<[name |-> name, quantity |-> multiplier]>>)
         ELSE ExpandItems(cb, entry.requiredItems.items, 1, multiplier, depth, <<>>)

-----------------------------------------------------------------------------
(* summary *)

MsgNotFound == "Recipe not found"
MsgNotRecipe == "Can only summarise recipe types"
MsgMissing == "A base ingredient provided does not exist in the cookbook"

NoBody == [name |-> "", cookTime |-> 0, ingredients |-> <<>>]

NotCalled == [called |-> FALSE, tag |-> "", map |-> <<>>, missing |-> ""]

Called(r) == [called |-> TRUE, tag |-> r.tag, map |-> r.map, missing |-> r.missing]

\* Accumulate adding each cookTime once, whatever the quantity
RECURSIVE Accumulate_NoQuantity(_, _, _, _, _)
Accumulate_NoQuantity(cb, base, idx, totalCookTime, ingredientsList) ==
    IF idx > Len(base)
    THEN [fault |-> FALSE, cookTime |-> totalCookTime, ingredients |-> ingredientsList]
    ELSE LET ingredientName == base[idx].name
             quantity == base[idx].quantity
         IN  IF ingredientName \notin DOMAIN cb
             THEN [fault |-> TRUE, cookTime |-> 0, ingredients |-> <<>>]
             ELSE LET ingredient == cb[ingredientName]
                      cookTime == IF ingredient.cookTime.k = "none" THEN 0
                                  ELSE ingredient.cookTime.i
                  IN  IF ingredient.cookTime.k = "str"
                      THEN [fault |-> TRUE, cookTime |-> 0, ingredients |-> <<>>]
                      ELSE Accumulate_NoQuantity(cb, base, idx + 1,
                                      totalCookTime + cookTime,
                                      Append(ingredientsList,
                                             [name |-> ingredientName,
                                              quantity |-> quantity]))

\* The loop over base_ingredients.items(): the total and the list, or a fault
\* when cookbook[ingredientName] raises KeyError or the product is no number.
RECURSIVE Accumulate(_, _, _, _, _)
Accumulate(cb, base, idx, totalCookTime, ingredientsList) ==
    IF idx > Len(base)
    THEN [fault |-> FALSE, cookTime |-> totalCookTime, ingredients |-> ingredientsList]
    ELSE LET ingredientName == base[idx].name
             quantity == base[idx].quantity
         IN  IF ingredientName \notin DOMAIN cb
             THEN [fault |-> TRUE, cookTime |-> 0, ingredients |-> <<>>]
             ELSE LET ingredient == cb[ingredientName]
                      cookTime == IF ingredient.cookTime.k = "none" THEN 0
                                  ELSE ingredient.cookTime.i
                  IN  IF ingredient.cookTime.k = "str"
                      THEN [fault |-> TRUE, cookTime |-> 0, ingredients |-> <<>>]
                      ELSE Accumulate(cb, base, idx + 1,
                                      totalCookTime + quantity * cookTime,
                                      Append(ingredientsList,
                                             [name |-> ingredientName,
                                              quantity |-> quantity]))

Reply(st, m, b, res) == [status |-> st, msg |-> m, body |-> b, resolution |-> res]

\* summary resolving the name before it checks the type
summary_ResolveFirst(cb, recipe) ==
    IF ~Truthy(recipe) \/ recipe.s \notin DOMAIN cb
    THEN Reply(400, MsgNotFound, NoBody, NotCalled)
    ELSE LET entry == cb[recipe.s]
             base_ingredients == get_base_ingredient_counts(cb, recipe.s, 1, 1)
         IN  IF entry.type # JStr("recipe")
             THEN Reply(400, MsgNotRecipe, NoBody, Called(base_ingredients))
             ELSE IF base_ingredients.tag # "ok"
                  THEN Reply(400, MsgMissing, NoBody, Called(base_ingredients))
                  ELSE LET acc == Accumulate(cb, base_ingredients.map, 1, 0, <<>>)
                       IN  IF acc.fault
                           THEN Reply(500, MsgFault, NoBody, Called(base_ingredients))
                           ELSE Reply(200, "",
                                      [name |-> recipe.s, cookTime |-> acc.cookTime,
                                       ingredients |-> acc.ingredients],
                                      Called(base_ingredients))

\* recipe is request.args.get('name'): a string, or None when absent.
summary(cb, recipe) ==
    IF ~Truthy(recipe) \/ recipe.s \notin DOMAIN cb
    THEN Reply(400, MsgNotFound, NoBody, NotCalled)
    ELSE LET entry == cb[recipe.s] IN
         IF entry.type # JStr("recipe")
         THEN Reply(400, MsgNotRecipe, NoBody, NotCalled)
         ELSE LET base_ingredients == get_base_ingredient_counts(cb, recipe.s, 1, 1)
              IN  IF base_ingredients.tag # "ok"
                  THEN Reply(400, MsgMissing, NoBody, Called(base_ingredients))
                  ELSE LET acc == Accumulate(cb, base_ingredients.map, 1, 0, <<>>)
                       IN  IF acc.fault
                           THEN Reply(500, MsgFault, NoBody, Called(base_ingredients))
                           ELSE Reply(200, "",
                                      [name |-> recipe.s, cookTime |-> acc.cookTime,
                                       ingredients |-> acc.ingredients],
                                      Called(base_ingredients))

-----------------------------------------------------------------------------
(* Requests *)

\* Longest requiredItems list of a request.
MaxItems == 2

\* Sequences over S of length at most n
RECURSIVE SeqsUpTo(_, _)
SeqsUpTo(S, n) ==
    IF n = 0 THEN {<<>>}
    ELSE LET shorter == SeqsUpTo(S, n - 1)
         IN  shorter \cup {Append(l, x) : l \in {t \in shorter : Len(t) = n - 1}, x \in S}

\* Entry names of the validation runs
ValidationNames == {"a", "b"}

\* Entry names of the resolution runs; the names in RecipeNames are created as
\* recipes or as ingredients, the others as ingredients or never
Names == {"a", "b", "c"}

RecipeNames == {"a", "b"}

TypeValues == {JStr("recipe"), JStr("ingredient"), JStr("other"), JNone}

NameValues == {JStr(n) : n \in ValidationNames} \cup {JNone, JStr(""), JInt(5)}

CookTimeValues == {JNone, JInt(-1), JInt(0), JStr("1"), JBool(TRUE)}

\* The well-formed element and one element for each way the loop can stop
ElementValues ==
    {Item(JStr("a"), JInt(1)), Item(JStr(""), JInt(1)), Item(JStr("a"), JNone),
     NotADict}

ItemsValues ==
    {NoItems, NotAList} \cup {ItemList(l) : l \in SeqsUpTo(ElementValues, MaxItems)}

\* Bodies of POST /entry, well-formed and malformed in every field
Payloads ==
    {FalsyEntry, NonDictEntry}
    \cup {Entry(JStr("recipe"), n, JNone, r) : n \in NameValues, r \in ItemsValues}
    \cup {Entry(JStr("ingredient"), n, c, NoItems) : n \in NameValues, c \in CookTimeValues}
    \cup {Entry(t, n, c, r) : t \in {JStr("other"), JNone}, n \in NameValues,
                              c \in {JNone, JInt(-1)}, r \in {NoItems, NotAList}}

\* Well-formed bodies over Names, for the resolution runs
Quantities == {1, 2}

CookTimes == {1, 2}

Distinct(l) == \A i, j \in 1..Len(l) : i # j => l[i].name # l[j].name

WellFormed ==
    {Entry(JStr("ingredient"), JStr(n), JInt(c), NoItems) : n \in Names, c \in CookTimes}
    \cup {Entry(JStr("recipe"), JStr(n), JNone, ItemList(l)) :
            n \in RecipeNames,
            l \in {t \in SeqsUpTo({Item(JStr(m), JInt(q)) : m \in Names, q \in Quantities},
                                  MaxItems) : Distinct(t)}}

\* The name query parameter of GET /summary
Queries(S) == {JNone, JStr("")} \cup {JStr(n) : n \in S}

Multipliers == {1, 2}

-----------------------------------------------------------------------------
(* The state machine *)

NoEntry ==
    [kind |-> "none", type |-> JNone, name |-> JNone, cookTime |-> JNone,
     requiredItems |-> NoItems]

Request(o, e, n, m) == [op |-> o, entry |-> e, name |-> n, multiplier |-> m]

Response(st, m, b) == [status |-> st, msg |-> m, body |-> b]

Init ==
    /\ cookbook = <<>>
    /\ request = Request("none", NoEntry, JNone, 0)
    /\ response = Response(0, "", NoBody)
    /\ resolution = NotCalled

\* POST /entry with body p
CreateEntry(p) ==
    LET r == create_entry(cookbook, p)
    IN  /\ cookbook' = r.cookbook
        /\ request' = Request("create", p, JNone, 0)
        /\ response' = Response(r.status, r.msg, NoBody)
        /\ resolution' = NotCalled

\* POST /entry with a well-formed body p under a new name, the body not kept
Populate(p) ==
    LET r == create_entry(cookbook, p)
    IN  /\ cookbook' = r.cookbook
        /\ request' = Request("create", NoEntry, JNone, 0)
        /\ response' = Response(r.status, r.msg, NoBody)
        /\ resolution' = NotCalled

\* GET /summary?name=q
Summary(q) ==
    LET r == summary(cookbook, q)
    IN  /\ request' = Request("summary", NoEntry, q, 1)
        /\ response' = Response(r.status, r.msg, r.body)
        /\ resolution' = r.resolution
        /\ UNCHANGED cookbook

\* A direct call get_base_ingredient_counts(n, m)
Resolve(n, m) ==
    /\ request' = Request("resolve", NoEntry, JStr(n), m)
    /\ response' = Response(0, "", NoBody)
    /\ resolution' = Called(get_base_ingredient_counts(cookbook, n, m, 1))
    /\ UNCHANGED cookbook

Next ==
    \/ \E p \in Payloads : CreateEntry(p)
    \/ \E q \in Queries(ValidationNames) : Summary(q)

Spec == Init /\ [][Next]_vars

NextResolve ==
    \/ \E p \in {e \in WellFormed : e.name.s \notin DOMAIN cookbook} : Populate(p)
    \/ \E q \in Queries(Names) : Summary(q)
    \/ \E n \in Names, m \in Multipliers : Resolve(n, m)

SpecResolve == Init /\ [][NextResolve]_vars

-----------------------------------------------------------------------------
(* The rules of the entry validator, each stated on its own *)

TypeViolated(e) == e.type \notin {JStr("recipe"), JStr("ingredient")}

NameViolated(e) == ~(e.name.k = "str" /\ e.name.s # "")

CookTimeViolated(e) ==
    /\ e.type = JStr("ingredient")
    /\ ~(e.cookTime.k \in {"int", "bool"} /\ e.cookTime.i >= 0)

UniqueViolated(cb, e) == e.name.k = "str" /\ e.name.s \in DOMAIN cb

ElementOk(x) ==
    /\ x.k = "dict"
    /\ x.name.k = "str" /\ x.name.s # ""
    /\ x.quantity.k \in {"int", "bool"}

ItemsViolated(e) ==
    /\ e.type = JStr("recipe")
    /\ ~(/\ e.requiredItems.k = "list"
         /\ \A j \in 1..Len(e.requiredItems.items) : ElementOk(e.requiredItems.items[j])
         /\ Distinct(e.requiredItems.items))

\* The reason of the earliest violated rule among type, name, cookTime and
\* uniqueness, "" when none of the four is violated
EarliestReason(cb, e) ==
    IF TypeViolated(e) THEN MsgType
    ELSE IF NameViolated(e) THEN MsgName
    ELSE IF CookTimeViolated(e) THEN MsgCookTime
    ELSE IF UniqueViolated(cb, e) THEN MsgUnique
    ELSE ""

\* How many of the five rules a body violates
Violations(cb, e) ==
    Cardinality({k \in 1..5 :
        \/ k = 1 /\ TypeViolated(e)
        \/ k = 2 /\ NameViolated(e)
        \/ k = 3 /\ CookTimeViolated(e)
        \/ k = 4 /\ UniqueViolated(cb, e)
        \/ k = 5 /\ ItemsViolated(e)})

-----------------------------------------------------------------------------
(* C1 *)

\* C1 as stated: a create_entry call whose name is already a key of the
\* registry is rejected with "Entry names must be unique", whatever its other
\* fields, and the registry keeps the first entry.
C1_DuplicateAlwaysUnique ==
    [][(request'.op = "create" /\ UniqueViolated(cookbook, request'.entry))
         => (response'.status = 400 /\ response'.msg = MsgUnique
             /\ cookbook' = cookbook)]_vars

\* C1 amended: such a call is always rejected and leaves the registry as it
\* was; the reason is "Entry names must be unique" when the type is valid and,
\* for an ingredient, the cookTime is valid, and else the reason of the type
\* or cookTime rule, which are checked first.
C1_DuplicateRejected ==
    [][(request'.op = "create" /\ UniqueViolated(cookbook, request'.entry))
         => (/\ response'.status = 400
             /\ cookbook' = cookbook
             /\ response'.msg = (IF TypeViolated(request'.entry) THEN MsgType
                                 ELSE IF CookTimeViolated(request'.entry)
                                      THEN MsgCookTime
                                 ELSE MsgUnique))]_vars

\* A second entry under a registered name, with other fields than the first
\* and a malformed requiredItems, was rejected as a duplicate.
C1_Witness ==
    /\ request.op = "create"
    /\ response.msg = MsgUnique
    /\ request.entry.name.s \in DOMAIN cookbook
    /\ cookbook[request.entry.name.s] # request.entry
    /\ ItemsViolated(request.entry)

-----------------------------------------------------------------------------
(* C2 *)

\* C2: a create_entry call that does not answer 200 leaves the registry
\* identical, keys and values.
C2_NoPartialInsert ==
    [][(request'.op = "create" /\ response'.status # 200)
         => cookbook' = cookbook]_vars

\* A recipe was rejected on its second element after its first was accepted.
C2_Witness ==
    /\ request.op = "create"
    /\ response.status = 400
    /\ response.msg \in {MsgItemName, MsgItemDup, MsgItemQty}
    /\ Len(request.entry.requiredItems.items) >= 2
    /\ ElementOk(request.entry.requiredItems.items[1])
    /\ request.entry.name.s \notin DOMAIN cookbook

-----------------------------------------------------------------------------
(* C3 *)

-----------------------------------------------------------------------------
(* C4 *)

\* C4: an accepted body is stored under its name unchanged, and no step
\* removes or changes an entry of the registry.
C4_RoundTripImmutable ==
    [][/\ \A n \in DOMAIN cookbook :
            n \in DOMAIN cookbook' /\ cookbook'[n] = cookbook[n]
       /\ (request'.op = "create" /\ response'.status = 200)
            => /\ request'.entry.name.s \in DOMAIN cookbook'
               /\ cookbook'[request'.entry.name.s] = request'.entry]_vars

\* Two entries are registered and a later body under the name of one of them,
\* with other fields, was turned down.
C4_Witness ==
    /\ Cardinality(DOMAIN cookbook) = 2
    /\ request.op = "create"
    /\ response.status = 400
    /\ request.entry.name.s \in DOMAIN cookbook
    /\ cookbook[request.entry.name.s] # request.entry
    /\ \E n \in DOMAIN cookbook : cookbook[n].cookTime = JBool(TRUE)

-----------------------------------------------------------------------------
(* C8 *)

\* C8: summary of a name that is no key of the registry answers "Recipe not
\* found", summary of an ingredient answers "Can only summarise recipe
\* types", and in neither case is get_base_ingredient_counts called.
C8_SummaryPreconditions ==
    request.op = "summary"
      => /\ (~Truthy(request.name) \/ request.name.s \notin DOMAIN cookbook)
              => (response.status = 400 /\ response.msg = MsgNotFound
                  /\ ~resolution.called)
         /\ (request.name.s \in DOMAIN cookbook
             /\ cookbook[request.name.s].type = JStr("ingredient"))
              => (response.status = 400 /\ response.msg = MsgNotRecipe
                  /\ ~resolution.called)
         /\ (request.name.s \in DOMAIN cookbook
             /\ cookbook[request.name.s].type = JStr("recipe"))
              => resolution.called

\* An ingredient was asked for its summary.
C8_Witness ==
    /\ request.op = "summary"
    /\ request.name.s \in DOMAIN cookbook
    /\ cookbook[request.name.s].type = JStr("ingredient")
    /\ response.msg = MsgNotRecipe

-----------------------------------------------------------------------------
(* The reference graph of a registry, stated without the resolver *)

IsRecipe(cb, n) == n \in DOMAIN cb /\ cb[n].type = JStr("recipe")

IsIngredient(cb, n) == n \in DOMAIN cb /\ cb[n].type = JStr("ingredient")

RequiredOf(cb, n) == IF IsRecipe(cb, n) THEN cb[n].requiredItems.items ELSE <<>>

\* The names a recipe requires
Children(cb, n) == {RequiredOf(cb, n)[j].name.s : j \in 1..Len(RequiredOf(cb, n))}

\* The quantity in which recipe n requires c (names are unique in a recipe)
QuantityOf(cb, n, c) ==
    LET items == RequiredOf(cb, n)
    IN  items[CHOOSE j \in 1..Len(items) : items[j].name.s = c].quantity.i

RECURSIVE Closure(_, _)
Closure(cb, S) ==
    LET T == S \cup UNION {Children(cb, x) : x \in S}
    IN  IF T = S THEN S ELSE Closure(cb, T)

\* The names reachable from n, n included, registered or not
Reach(cb, n) == Closure(cb, {n})

MissingReachable(cb, n) == \E x \in Reach(cb, n) : x \notin DOMAIN cb

OnCycle(cb, x) == x \in Closure(cb, Children(cb, x))

CycleReachable(cb, n) == \E x \in Reach(cb, n) : OnCycle(cb, x)

\* The reference paths from n to i: the node sequences n = p[1], ..., p[k] = i
\* in which each node requires the next
PathsTo(cb, n, i) ==
    {p \in UNION {[1..k -> Reach(cb, n)] : k \in 1..Cardinality(Reach(cb, n))} :
        /\ p[1] = n
        /\ p[Len(p)] = i
        /\ \A j \in 1..(Len(p) - 1) : p[j + 1] \in Children(cb, p[j])}

RECURSIVE PathProduct(_, _, _)
PathProduct(cb, p, j) ==
    IF j >= Len(p) THEN 1
    ELSE QuantityOf(cb, p[j], p[j + 1]) * PathProduct(cb, p, j + 1)

RECURSIVE SumOfProducts(_, _)
SumOfProducts(cb, P) ==
    IF P = {} THEN 0
    ELSE LET p == CHOOSE q \in P : TRUE
         IN  PathProduct(cb, p, 1) + SumOfProducts(cb, P \ {p})

PathSum(cb, n, i) == SumOfProducts(cb, PathsTo(cb, n, i))

\* What a depth-first expansion in the order of requiredItems meets first:
\* an absent name ("missing"), a recipe that is being expanded ("cycle"), or
\* neither ("none")
RECURSIVE Walk(_, _, _)
RECURSIVE WalkItems(_, _, _, _)
WalkItems(cb, items, idx, path) ==
    IF idx > Len(items) THEN "none"
    ELSE LET met == Walk(cb, items[idx].name.s, path)
         IN  IF met # "none" THEN met ELSE WalkItems(cb, items, idx + 1, path)

Walk(cb, n, path) ==
    IF n \notin DOMAIN cb THEN "missing"
    ELSE IF n \in path THEN "cycle"
    ELSE WalkItems(cb, RequiredOf(cb, n), 1, path \cup {n})

FirstMet(cb, n) == Walk(cb, n, {})

KeysOf(map) == {map[j].name : j \in 1..Len(map)}

PairsOf(map) == {map[j] : j \in 1..Len(map)}

Scale(k, map) ==
    [j \in 1..Len(map) |-> [name |-> map[j].name, quantity |-> k * map[j].quantity]]

Factors == {2, 3}

\* The last step called get_base_ingredient_counts(request.name, request.multiplier)
Resolved == request.op \in {"resolve", "summary"} /\ resolution.called

-----------------------------------------------------------------------------
(* C5 *)

\* C5: when no cycle and no absent name is reachable from the name,
\* get_base_ingredient_counts(name, m) returns one key for each reachable
\* ingredient, its value m times the sum over the reference paths to it of
\* the product of the quantities along the path, and the result for k*m is k
\* times the result for m, key by key.
C5_ResolverResult ==
    (Resolved /\ ~MissingReachable(cookbook, request.name.s)
              /\ ~CycleReachable(cookbook, request.name.s))
      => LET n == request.name.s
             m == request.multiplier
             map == resolution.map
         IN  /\ resolution.tag = "ok"
             /\ Cardinality(KeysOf(map)) = Len(map)
             /\ KeysOf(map) = {i \in Reach(cookbook, n) : IsIngredient(cookbook, i)}
             /\ \A j \in 1..Len(map) :
                    map[j].quantity = m * PathSum(cookbook, n, map[j].name)
             /\ \A k \in Factors :
                    get_base_ingredient_counts(cookbook, n, k * m, 1)
                      = Returned(Scale(k, map))

\* A direct call with multiplier 2 returned an ingredient that the recipe
\* reaches along two paths.
C5_Witness ==
    /\ request.op = "resolve"
    /\ request.multiplier = 2
    /\ resolution.tag = "ok"
    /\ \E j \in 1..Len(resolution.map) :
          /\ Cardinality(PathsTo(cookbook, request.name.s, resolution.map[j].name)) = 2
          /\ resolution.map[j].quantity > 4

-----------------------------------------------------------------------------
(* C6 *)

\* C6 as stated: when a recipe reaches an absent name, the resolver aborts
\* with the unknown-reference failure and summary answers "A base ingredient
\* provided does not exist in the cookbook", wherever the absent name stands.
C6_UnknownReferenceAlways ==
    (Resolved /\ IsRecipe(cookbook, request.name.s)
              /\ MissingReachable(cookbook, request.name.s))
      => /\ resolution.tag = "Exception"
         /\ request.op = "summary"
              => (response.status = 400 /\ response.msg = MsgMissing)

\* C6 amended: when a recipe reaches an absent name the resolver returns no
\* mapping and summary answers "A base ingredient provided does not exist in
\* the cookbook", wherever the absent name stands; the resolver's failure is
\* the unknown-reference failure when the depth-first expansion meets the
\* absent name before it re-enters a recipe it is expanding, as it does when
\* no cycle is reachable.
C6_UnknownReference ==
    (Resolved /\ IsRecipe(cookbook, request.name.s)
              /\ MissingReachable(cookbook, request.name.s))
      => /\ resolution.tag # "ok"
         /\ resolution.map = <<>>
         /\ request.op = "summary"
              => (response.status = 400 /\ response.msg = MsgMissing
                  /\ response.body = NoBody)
         /\ FirstMet(cookbook, request.name.s) = "missing"
              => (resolution.tag = "Exception"
                  /\ resolution.missing \in Reach(cookbook, request.name.s)
                  /\ resolution.missing \notin DOMAIN cookbook)
         /\ ~CycleReachable(cookbook, request.name.s)
              => resolution.tag = "Exception"

\* summary failed on a recipe whose sub-recipe requires the absent name, in
\* quantity 2.
C6_Witness ==
    /\ request.op = "summary"
    /\ response.msg = MsgMissing
    /\ resolution.tag = "Exception"
    /\ resolution.missing \notin Children(cookbook, request.name.s)
    /\ \E x \in Children(cookbook, request.name.s) :
          /\ resolution.missing \in Children(cookbook, x)
          /\ QuantityOf(cookbook, x, resolution.missing) = 2

-----------------------------------------------------------------------------
(* C7 *)

RECURSIVE WeightedCookTime(_, _)
WeightedCookTime(cb, pairs) ==
    IF pairs = {} THEN 0
    ELSE LET p == CHOOSE q \in pairs : TRUE
         IN  p.quantity * cb[p.name].cookTime.i + WeightedCookTime(cb, pairs \ {p})

\* C7: a summary that succeeds returns the name asked for, one ingredient
\* pair for each pair of get_base_ingredient_counts(name, 1) and no other,
\* and as cookTime the sum over the pairs of quantity times the registered
\* cookTime of the ingredient.
C7_SummaryResult ==
    (request.op = "summary" /\ response.status = 200)
      => LET r == request.name.s
             map == get_base_ingredient_counts(cookbook, r, 1, 1).map
             list == response.body.ingredients
         IN  /\ response.body.name = r
             /\ Len(list) = Len(map)
             /\ Cardinality(KeysOf(list)) = Len(list)
             /\ PairsOf(list) = PairsOf(map)
             /\ response.body.cookTime = WeightedCookTime(cookbook, PairsOf(map))

\* A summary listed two ingredients of different cookTime, one of them in a
\* quantity above 1.
C7_Witness ==
    /\ request.op = "summary"
    /\ response.status = 200
    /\ Len(response.body.ingredients) = 2
    /\ \E i, j \in 1..2 :
          /\ response.body.ingredients[i].quantity > 1
          /\ cookbook[response.body.ingredients[i].name].cookTime.i
               # cookbook[response.body.ingredients[j].name].cookTime.i

-----------------------------------------------------------------------------
(* C9 *)

\* C9 as stated: on a recipe that lies on a reference cycle the resolver
\* returns neither a mapping nor an unknown-reference failure.
C9_CycleNeverReturns ==
    (Resolved /\ OnCycle(cookbook, request.name.s))
      => resolution.tag \notin {"ok", "Exception"}

\* C9 amended: create_entry accepts recipes that form a cycle, and when the
\* depth-first expansion of a name re-enters a recipe it is expanding before
\* it meets an absent name (as it does when a cycle and no absent name is
\* reachable), the resolver returns neither a mapping nor an unknown-reference
\* failure: it recurses until the interpreter's recursion limit stops it.
\* Only such an expansion reaches the limit.
C9_CycleRecursesToLimit ==
    Resolved
      => /\ FirstMet(cookbook, request.name.s) = "cycle"
              => resolution.tag = "RecursionError"
         /\ (CycleReachable(cookbook, request.name.s)
             /\ ~MissingReachable(cookbook, request.name.s))
              => resolution.tag = "RecursionError"
         /\ resolution.tag = "RecursionError"
              => CycleReachable(cookbook, request.name.s)

\* The registry holds a recipe that requires itself and a cycle of two
\* recipes, and a call on one of them ran into the recursion limit.
C9_Witness ==
    /\ Resolved
    /\ resolution.tag = "RecursionError"
    /\ \E x, y \in DOMAIN cookbook :
          /\ x # y
          /\ x \in Children(cookbook, x)
          /\ y \in Children(cookbook, x)
          /\ x \in Children(cookbook, y)
          /\ request.name.s = y

-----------------------------------------------------------------------------
(* C10 *)

\* C10: every key of a mapping the resolver returns is a registered
\* ingredient, so summary's lookups do not fail; a recipe without required
\* items resolves to the empty mapping and its summary has cookTime 0 and no
\* ingredients.
C10_KeysAreIngredients ==
    /\ (Resolved /\ resolution.tag = "ok")
         => \A j \in 1..Len(resolution.map) :
                IsIngredient(cookbook, resolution.map[j].name)
    /\ request.op = "summary" => response.status # 500
    /\ (request.op = "summary" /\ IsRecipe(cookbook, request.name.s)
        /\ RequiredOf(cookbook, request.name.s) = <<>>)
         => /\ resolution = Called(Returned(<<>>))
            /\ response.status = 200
            /\ response.body = [name |-> request.name.s, cookTime |-> 0,
                                ingredients |-> <<>>]

\* A summary succeeded on a recipe that requires a recipe without required
\* items beside an ingredient.
C10_Witness ==
    /\ request.op = "summary"
    /\ response.status = 200
    /\ Len(response.body.ingredients) = 1
    /\ \E x \in Children(cookbook, request.name.s) :
          IsRecipe(cookbook, x) /\ RequiredOf(cookbook, x) = <<>>

====
